---- MODULE Spec2Model ----
(***************************************************************************)
(* A model of the search engine: the Indexer's build pipeline              *)
(* (createPartialIndexes, mergePartialIndexesToDisk, calculateTF_IDF,      *)
(* createIndexofIndex, writeDocIdToURLToDisk) followed by the Searcher     *)
(* (readPostingList, getPostingsListsIntersection, mergePostingLists,      *)
(* searchQuery) reading the files the build left in the index folder.      *)
(*                                                                         *)
(* Tokens are modelled by their rank in lexicographic order (1 < 2 < ...); *)
(* token t is spelled with t+1 characters.  URLs are modelled by the       *)
(* position of the document in the corpus iteration (1-based); 0 stands    *)
(* for the empty string.  Scores are fixed-point numbers (see Log10).      *)
(***************************************************************************)
EXTENDS Integers, Sequences, FiniteSets, TLC

\* ---------------------------------------------------------------- bounds
MaxDocs == 3
NumTerms == 2
MaxDocLen == 2
MaxResultsBound == 2

\* ------------------------------------------------------ program constants
INDEX_FILE_NAME == 0
DEFAULT_IMPORTANCE == 1
TAG_IMPORTANCE == [title |-> 10, h1 |-> 5, h2 |-> 4, h3 |-> 3, strong |-> 2]

Terms == 1..NumTerms
\* tags that occur in the modelled corpus
CorpusTags == {"title"}

VARIABLES
    pc,                   \* position in Indexer.run / Searcher.run
    docsSeen,             \* documents yielded by iterCorpus so far
    index,                \* Indexer.index: token -> posting list
    docIDtoURL,           \* Indexer.docIDtoURL
    numberOfDocsIndexed,  \* Indexer.numberOfDocsIndexed
    currPartialIndex,     \* Indexer.currPartialIndex
    currDocID,            \* local currDocID of createPartialIndexes
    dir,                  \* index folder: file name -> lines (0 is index.jsonl, n>=1 is partialIndex_n.jsonl)
    partialIndexPaths,    \* the iterator over the directory listing of the current merge pass
    indexOfIndexFile,     \* indexOfIndex.json: token -> seek position
    docIDtoURLFile,       \* docIDtoURL.txt: one URL per line
    ingested,             \* history: the documents that were indexed, in order
    reference,            \* history: the spilled files merged in creation order
    indexOfIndex,         \* Searcher.indexOfIndex
    searcherDocIDtoURL,   \* Searcher.docIDtoURL
    search,               \* the last searchQuery call and what it computed
    listed,               \* history: the number of files the current merge pass listed
    invertedIndexFile,    \* Searcher.invertedIndexFile: the position of the one open handle
    handlers              \* web app: the request handlers and their place in readPostingList

vars == <<pc, docsSeen, index, docIDtoURL, numberOfDocsIndexed, currPartialIndex,
          currDocID, dir, partialIndexPaths, indexOfIndexFile, docIDtoURLFile,
          ingested, reference, indexOfIndex, searcherDocIDtoURL, search,
          listed, invertedIndexFile, handlers>>

\* ------------------------------------------------------------- helpers
EmptyMap == [x \in {} |-> 0]

Min(S) == CHOOSE x \in S : \A y \in S : x <= y

RECURSIVE SumSeq(_)
SumSeq(s) == IF s = <<>> THEN 0 ELSE Head(s) + SumSeq(Tail(s))

\* ------------------------------------------------------------ documents
\* The parsed form of an HTML page: the frequency of every token of its text,
\* and the weighted tag the token stands in, if any.
RECURSIVE TotalFrequency(_)
TotalFrequency(f) ==
    IF DOMAIN f = {} THEN 0
    ELSE LET t == Min(DOMAIN f)
         IN  f[t] + TotalFrequency([u \in DOMAIN f \ {t} |-> f[u]])

\* the token frequencies of the texts of at most MaxDocLen tokens
Frequencies ==
    UNION { { f \in [S -> 1..MaxDocLen] : TotalFrequency(f) <= MaxDocLen } : S \in SUBSET Terms }

\* the assignments of a weighted tag to some of the tokens of S
Taggings(S) == UNION { [T -> CorpusTags] : T \in SUBSET S }

HTMLs == UNION { { [freq |-> f, tags |-> g] : g \in Taggings(DOMAIN f) } : f \in Frequencies }

NoHTML == [freq |-> EmptyMap, tags |-> EmptyMap]

\* The document at corpus position p: a JSON file that parses or not, with a
\* url and a content that may each be missing or empty.
Documents(p) ==
    { [json |-> TRUE, url |-> p, hasContent |-> TRUE, html |-> h] : h \in HTMLs }
    \cup { [json |-> FALSE, url |-> p, hasContent |-> TRUE, html |-> NoHTML],
           [json |-> TRUE, url |-> 0, hasContent |-> TRUE, html |-> NoHTML],
           [json |-> TRUE, url |-> p, hasContent |-> FALSE, html |-> NoHTML] }

Skipped(doc) == ~doc.json \/ doc.url = 0 \/ ~doc.hasContent

\* ------------------------------------------------------------- Indexer
parseDocument(html, docID) ==
    [token \in DOMAIN html.freq |->
        IF token \in DOMAIN html.tags
        THEN [docID |-> docID, tokenFrequency |-> html.freq[token],
              tokenImportance |-> TAG_IMPORTANCE[html.tags[token]]]
        ELSE [docID |-> docID, tokenFrequency |-> html.freq[token]]]

\* for token, posting in postings.items(): append to or start the posting list
AddPostings(idx, postings) ==
    [token \in DOMAIN idx \cup DOMAIN postings |->
        IF token \in DOMAIN postings
        THEN IF token \in DOMAIN idx THEN Append(idx[token], postings[token])
                                     ELSE <<postings[token]>>
        ELSE idx[token]]

RECURSIVE sorted(_)
sorted(S) == IF S = {} THEN <<>> ELSE <<Min(S)>> \o sorted(S \ {Min(S)})

\* the lines writePartialIndexToDisk writes for the accumulator idx
PartialIndexLines(idx) ==
    LET toks == sorted(DOMAIN idx)
    IN  [k \in 1..Len(toks) |-> [token |-> toks[k], postings |-> idx[toks[k]]]]

WriteFile(d, name, lines) ==
    [n \in DOMAIN d \cup {name} |-> IF n = name THEN lines ELSE d[n]]

Unlink(d, names) == [n \in DOMAIN d \ names |-> d[n]]

\* the 2-way merge with the comparison of the tokens reversed
RECURSIVE _mergeDescending(_, _)
_mergeDescending(fA, fB) ==
    IF fA = <<>> THEN fB
    ELSE IF fB = <<>> THEN fA
    ELSE IF fA[1].token = fB[1].token
         THEN <<[token |-> fA[1].token, postings |-> fA[1].postings \o fB[1].postings]>>
              \o _mergeDescending(Tail(fA), Tail(fB))
    ELSE IF fA[1].token > fB[1].token
         THEN <<fA[1]>> \o _mergeDescending(Tail(fA), fB)
         ELSE <<fB[1]>> \o _mergeDescending(fA, Tail(fB))

\* the 2-way merge keeping only the first file's postings of a common token
RECURSIVE _mergeKeepFirst(_, _)
_mergeKeepFirst(fA, fB) ==
    IF fA = <<>> THEN fB
    ELSE IF fB = <<>> THEN fA
    ELSE IF fA[1].token = fB[1].token
         THEN <<fA[1]>> \o _mergeKeepFirst(Tail(fA), Tail(fB))
    ELSE IF fA[1].token < fB[1].token
         THEN <<fA[1]>> \o _mergeKeepFirst(Tail(fA), fB)
         ELSE <<fB[1]>> \o _mergeKeepFirst(fA, Tail(fB))

RECURSIVE _mergePartialIndexesToDisk(_, _)
_mergePartialIndexesToDisk(fA, fB) ==
    IF fA = <<>> THEN fB
    ELSE IF fB = <<>> THEN fA
    ELSE IF fA[1].token = fB[1].token
         THEN <<[token |-> fA[1].token, postings |-> fA[1].postings \o fB[1].postings]>>
              \o _mergePartialIndexesToDisk(Tail(fA), Tail(fB))
    ELSE IF fA[1].token < fB[1].token
         THEN <<fA[1]>> \o _mergePartialIndexesToDisk(Tail(fA), fB)
         ELSE <<fB[1]>> \o _mergePartialIndexesToDisk(fA, Tail(fB))

\* sys.getsizeof(self.index) > MAX_INDEX_SIZE: the size of a dict is not
\* modelled; any non-empty accumulator may or may not exceed the threshold.
ExceedsMaxIndexSize(idx) == IF DOMAIN idx = {} THEN {FALSE} ELSE BOOLEAN

NoSearch == [called |-> FALSE]

\* ------------------------------------------------------------ web app
\* the request handlers that can run at once
NumHandlers == 2

Handlers == 1..NumHandlers

\* no request is being served
NoHandlers == [h \in Handlers |-> [pc |-> "idle"]]

\* currDocID after one iteration: `continue` skips the increment at the end of the loop body
NextDocIDAlways(doc, docID) == docID + 1

NextDocID(doc, docID) == IF Skipped(doc) THEN docID ELSE docID + 1

Init ==
    /\ pc = "createPartialIndexes"
    /\ docsSeen = 0
    /\ index = EmptyMap
    /\ docIDtoURL = <<>>
    /\ numberOfDocsIndexed = 0
    /\ currPartialIndex = 1
    /\ currDocID = 0
    /\ dir = EmptyMap
    /\ partialIndexPaths = <<>>
    /\ indexOfIndexFile = EmptyMap
    /\ docIDtoURLFile = <<>>
    /\ ingested = <<>>
    /\ reference = <<>>
    /\ indexOfIndex = EmptyMap
    /\ searcherDocIDtoURL = <<>>
    /\ search = NoSearch
    /\ listed = 0
    /\ invertedIndexFile = 0
    /\ handlers = NoHandlers

\* one iteration of the loop of createPartialIndexes
IngestDocument ==
    /\ pc = "createPartialIndexes"
    /\ docsSeen < MaxDocs
    /\ docsSeen' = docsSeen + 1
    /\ \E doc \in Documents(docsSeen + 1) :
         IF Skipped(doc)
         THEN /\ currDocID' = NextDocID(doc, currDocID)
              /\ UNCHANGED <<index, docIDtoURL, numberOfDocsIndexed, currPartialIndex,
                             dir, ingested, reference>>
         ELSE LET idx == AddPostings(index, parseDocument(doc.html, currDocID))
              IN  /\ docIDtoURL' = Append(docIDtoURL, doc.url)
                  /\ numberOfDocsIndexed' = numberOfDocsIndexed + 1
                  /\ ingested' = Append(ingested, doc)
                  /\ currDocID' = NextDocID(doc, currDocID)
                  /\ \E spill \in ExceedsMaxIndexSize(idx) :
                       IF spill
                       THEN /\ dir' = WriteFile(dir, currPartialIndex, PartialIndexLines(idx))
                            /\ currPartialIndex' = currPartialIndex + 1
                            /\ index' = EmptyMap
                            /\ reference' = _mergePartialIndexesToDisk(reference, PartialIndexLines(idx))
                       ELSE /\ index' = idx
                            /\ UNCHANGED <<dir, currPartialIndex, reference>>
    /\ UNCHANGED <<pc, partialIndexPaths, indexOfIndexFile, docIDtoURLFile,
                   indexOfIndex, searcherDocIDtoURL, search,
                   listed, invertedIndexFile, handlers>>

\* the corpus is exhausted: the last writePartialIndexToDisk of createPartialIndexes
FinishPartialIndexes ==
    /\ pc = "createPartialIndexes"
    /\ dir' = WriteFile(dir, currPartialIndex, PartialIndexLines(index))
    /\ currPartialIndex' = currPartialIndex + 1
    /\ reference' = _mergePartialIndexesToDisk(reference, PartialIndexLines(index))
    /\ pc' = "mergePartialIndexesToDisk"
    /\ UNCHANGED <<docsSeen, index, docIDtoURL, numberOfDocsIndexed, currDocID,
                   partialIndexPaths, indexOfIndexFile, docIDtoURLFile, ingested,
                   indexOfIndex, searcherDocIDtoURL, search,
                   listed, invertedIndexFile, handlers>>

\* the orders in which the elements of S can be listed, as iterdir() may
\* yield the files of a folder or a set its elements
Orders(S) ==
    { p \in [1..Cardinality(S) -> S] : \A i, j \in 1..Cardinality(S) : p[i] = p[j] => i = j }

\* path.name.startswith(PARTIAL_INDEX_FILE_NAME_PREFIX)
PartialIndexFiles(d) == { n \in DOMAIN d : n # INDEX_FILE_NAME }

\* mergePartialIndexesToDisk, one file left: rename it to index.jsonl
RenameToIndex ==
    /\ pc = "mergePartialIndexesToDisk"
    /\ Cardinality(PartialIndexFiles(dir)) = 1
    /\ LET last == CHOOSE n \in PartialIndexFiles(dir) : TRUE
       IN  dir' = Unlink(WriteFile(dir, INDEX_FILE_NAME, dir[last]), {last})
    /\ pc' = "calculateTF_IDF"
    /\ UNCHANGED <<docsSeen, index, docIDtoURL, numberOfDocsIndexed, currPartialIndex,
                   currDocID, partialIndexPaths, indexOfIndexFile, docIDtoURLFile,
                   ingested, reference, indexOfIndex, searcherDocIDtoURL, search,
                   listed, invertedIndexFile, handlers>>

\* mergePartialIndexesToDisk, several files: list the directory and start a pass
StartMergePass ==
    /\ pc = "mergePartialIndexesToDisk"
    /\ Cardinality(PartialIndexFiles(dir)) # 1
    /\ partialIndexPaths' \in Orders(PartialIndexFiles(dir))
    /\ listed' = Cardinality(PartialIndexFiles(dir))
    /\ pc' = "mergePairs"
    /\ UNCHANGED <<docsSeen, index, docIDtoURL, numberOfDocsIndexed, currPartialIndex,
                   currDocID, dir, indexOfIndexFile, docIDtoURLFile,
                   ingested, reference, indexOfIndex, searcherDocIDtoURL, search,
                   invertedIndexFile, handlers>>

\* the merge of a pair with fileB.unlink() left out
MergePairKeepsB ==
    /\ pc = "mergePairs"
    /\ Len(partialIndexPaths) >= 2
    /\ LET filePathA == partialIndexPaths[1]
           filePathB == partialIndexPaths[2]
           \* opening the merged file for writing truncates it
           fA == IF filePathA = currPartialIndex THEN <<>> ELSE dir[filePathA]
           fB == IF filePathB = currPartialIndex THEN <<>> ELSE dir[filePathB]
       IN  dir' = Unlink(WriteFile(dir, currPartialIndex, _mergePartialIndexesToDisk(fA, fB)),
                         {filePathA})
    /\ currPartialIndex' = currPartialIndex + 1
    /\ partialIndexPaths' = Tail(Tail(partialIndexPaths))
    /\ UNCHANGED <<pc, docsSeen, index, docIDtoURL, numberOfDocsIndexed,
                   currDocID, indexOfIndexFile, docIDtoURLFile,
                   ingested, reference, indexOfIndex, searcherDocIDtoURL, search,
                   listed, invertedIndexFile, handlers>>

\* the next two paths of the listing are merged into a new file and unlinked
MergePair ==
    /\ pc = "mergePairs"
    /\ Len(partialIndexPaths) >= 2
    /\ LET filePathA == partialIndexPaths[1]
           filePathB == partialIndexPaths[2]
           \* opening the merged file for writing truncates it
           fA == IF filePathA = currPartialIndex THEN <<>> ELSE dir[filePathA]
           fB == IF filePathB = currPartialIndex THEN <<>> ELSE dir[filePathB]
       IN  dir' = Unlink(WriteFile(dir, currPartialIndex, _mergePartialIndexesToDisk(fA, fB)),
                         {filePathA, filePathB})
    /\ currPartialIndex' = currPartialIndex + 1
    /\ partialIndexPaths' = Tail(Tail(partialIndexPaths))
    /\ UNCHANGED <<pc, docsSeen, index, docIDtoURL, numberOfDocsIndexed,
                   currDocID, indexOfIndexFile, docIDtoURLFile,
                   ingested, reference, indexOfIndex, searcherDocIDtoURL, search,
                   listed, invertedIndexFile, handlers>>

\* StopIteration: fewer than two paths are left, an odd one carries over
EndMergePass ==
    /\ pc = "mergePairs"
    /\ Len(partialIndexPaths) < 2
    /\ partialIndexPaths' = <<>>
    /\ pc' = "mergePartialIndexesToDisk"
    /\ UNCHANGED <<docsSeen, index, docIDtoURL, numberOfDocsIndexed, currPartialIndex,
                   currDocID, dir, indexOfIndexFile, docIDtoURLFile,
                   ingested, reference, indexOfIndex, searcherDocIDtoURL, search,
                   listed, invertedIndexFile, handlers>>

\* math.log10, as a fixed-point number with two decimals, of 1..10
Log10 == <<0, 30, 48, 60, 70, 78, 85, 90, 95, 100>>

\* the rewritten posting with del posting["tokenFrequency"] left out
TF_IDFKeepFrequency(posting, docFrequency, N) ==
    LET weight == IF "tokenImportance" \in DOMAIN posting
                  THEN posting.tokenImportance ELSE DEFAULT_IMPORTANCE
        log_tf == 100 + Log10[posting.tokenFrequency]
        idf    == Log10[N] - Log10[docFrequency]
    IN  [docID |-> posting.docID, tokenFrequency |-> posting.tokenFrequency,
         tf_idf |-> weight * log_tf * idf]

\* the rewritten posting of calculateTF_IDF
TF_IDF(posting, docFrequency, N) ==
    LET weight == IF "tokenImportance" \in DOMAIN posting
                  THEN posting.tokenImportance ELSE DEFAULT_IMPORTANCE
        log_tf == 100 + Log10[posting.tokenFrequency]
        idf    == Log10[N] - Log10[docFrequency]
    IN  [docID |-> posting.docID, tf_idf |-> weight * log_tf * idf]

RewriteLine(line, N) ==
    [token |-> line.token,
     postings |-> [k \in 1..Len(line.postings) |->
                      TF_IDF(line.postings[k], Len(line.postings), N)]]

calculateTF_IDF(lines, N) == [k \in 1..Len(lines) |-> RewriteLine(lines[k], N)]

CalculateTF_IDF ==
    /\ pc = "calculateTF_IDF"
    \* log10(N / df) raises ValueError for N = 0
    /\ numberOfDocsIndexed > 0 \/ dir[INDEX_FILE_NAME] = <<>>
    /\ dir' = WriteFile(dir, INDEX_FILE_NAME, calculateTF_IDF(dir[INDEX_FILE_NAME], numberOfDocsIndexed))
    /\ pc' = "createIndexofIndex"
    /\ UNCHANGED <<docsSeen, index, docIDtoURL, numberOfDocsIndexed, currPartialIndex,
                   currDocID, partialIndexPaths, indexOfIndexFile, docIDtoURLFile,
                   ingested, reference, indexOfIndex, searcherDocIDtoURL, search,
                   listed, invertedIndexFile, handlers>>

\* calculateTF_IDF raises: no document was indexed and the index has a line
CalculateTF_IDFRaises ==
    /\ pc = "calculateTF_IDF"
    /\ numberOfDocsIndexed = 0
    /\ dir[INDEX_FILE_NAME] # <<>>
    /\ pc' = "ValueError"
    /\ UNCHANGED <<docsSeen, index, docIDtoURL, numberOfDocsIndexed, currPartialIndex,
                   currDocID, dir, partialIndexPaths, indexOfIndexFile, docIDtoURLFile,
                   ingested, reference, indexOfIndex, searcherDocIDtoURL, search,
                   listed, invertedIndexFile, handlers>>

\* ------------------------------------------------- the bytes of a file
\* token t is spelled with t+1 characters
TokenLen(token) == token + 1

RECURSIVE Digits(_)
Digits(n) == IF n < 10 THEN 1 ELSE 1 + Digits(n \div 10)

FieldNameLen == [docID |-> 5, tokenFrequency |-> 14, tokenImportance |-> 15, tf_idf |-> 6]

\* json.dumps of a posting: {"docID": 0, "tf_idf": 18}
PostingBytes(posting) ==
    LET fields == DOMAIN posting
        FieldBytes(f) == FieldNameLen[f] + 4 + Digits(posting[f])
        RECURSIVE Total(_)
        Total(F) == IF F = {} THEN 0
                    ELSE LET f == CHOOSE x \in F : TRUE
                         IN  FieldBytes(f) + Total(F \ {f})
    IN  2 + Total(fields) + 2 * (Cardinality(fields) - 1)

\* json.dumps of a line and its newline: {"aa": [{...}, {...}]}
LineBytes(line) ==
    LET n == Len(line.postings)
    IN  TokenLen(line.token) + 9
        + SumSeq([k \in 1..n |-> PostingBytes(line.postings[k])])
        + (IF n > 1 THEN 2 * (n - 1) ELSE 0)

\* indexFile.tell() before line k is read
SeekPosition(lines, k) == SumSeq([i \in 1..(k - 1) |-> LineBytes(lines[i])])

\* the position of line k counted without the newlines of the lines before it
SeekPositionStripped(lines, k) == SumSeq([i \in 1..(k - 1) |-> LineBytes(lines[i]) - 1])

\* seek(position) followed by readline(): the line that starts there, if one does
ReadLineAt(lines, position) ==
    IF \E k \in 1..Len(lines) : SeekPosition(lines, k) = position
    THEN [ok |-> TRUE, line |-> lines[CHOOSE k \in 1..Len(lines) : SeekPosition(lines, k) = position]]
    ELSE [ok |-> FALSE]

\* createIndexofIndex with the positions counted over the stripped lines
createIndexofIndexStripped(lines) ==
    [token \in { lines[k].token : k \in 1..Len(lines) } |->
        LET last == CHOOSE k \in 1..Len(lines) :
                        /\ lines[k].token = token
                        /\ \A l \in 1..Len(lines) : lines[l].token = token => l <= k
        IN  SeekPositionStripped(lines, last)]

\* the dict built by createIndexofIndex: a later line of a token overwrites an earlier one
createIndexofIndex(lines) ==
    [token \in { lines[k].token : k \in 1..Len(lines) } |->
        LET last == CHOOSE k \in 1..Len(lines) :
                        /\ lines[k].token = token
                        /\ \A l \in 1..Len(lines) : lines[l].token = token => l <= k
        IN  SeekPosition(lines, last)]

CreateIndexofIndex ==
    /\ pc = "createIndexofIndex"
    /\ indexOfIndexFile' = createIndexofIndex(dir[INDEX_FILE_NAME])
    /\ pc' = "writeDocIdToURLToDisk"
    /\ UNCHANGED <<docsSeen, index, docIDtoURL, numberOfDocsIndexed, currPartialIndex,
                   currDocID, dir, partialIndexPaths, docIDtoURLFile,
                   ingested, reference, indexOfIndex, searcherDocIDtoURL, search,
                   listed, invertedIndexFile, handlers>>

WriteDocIdToURLToDisk ==
    /\ pc = "writeDocIdToURLToDisk"
    /\ docIDtoURLFile' = docIDtoURL
    /\ pc' = "Searcher.run"
    /\ UNCHANGED <<docsSeen, index, docIDtoURL, numberOfDocsIndexed, currPartialIndex,
                   currDocID, dir, partialIndexPaths, indexOfIndexFile,
                   ingested, reference, indexOfIndex, searcherDocIDtoURL, search,
                   listed, invertedIndexFile, handlers>>

\* ------------------------------------------------------------ Searcher
\* the tokens a query can hold: those of the corpus and one that no document holds
QueryTokens == 1..(NumTerms + 1)

\* set(tokenizer.tokenize(query)), in the order the set is iterated
Queries == UNION { Orders(S) : S \in SUBSET QueryTokens }

\* Searcher.run: loadIndexOfIndex and loadDocIDtoURLs. The Searcher is a new
\* process: the Indexer's has ended, of its state the files alone are left.
SearcherRun ==
    /\ pc = "Searcher.run"
    /\ indexOfIndex' = indexOfIndexFile
    /\ searcherDocIDtoURL' = docIDtoURLFile
    /\ pc' = "searchQuery"
    /\ docsSeen' = 0
    /\ index' = EmptyMap
    /\ docIDtoURL' = <<>>
    /\ numberOfDocsIndexed' = 0
    /\ currPartialIndex' = 1
    /\ currDocID' = 0
    /\ ingested' = <<>>
    /\ reference' = <<>>
    /\ listed' = 0
    \* open(): the handle is at the start of the file
    /\ invertedIndexFile' = 0
    /\ UNCHANGED <<dir, partialIndexPaths, indexOfIndexFile, docIDtoURLFile, search, handlers>>

\* readPostingList with the offset looked up as indexOfIndex[token]
readPostingListNoDefault(offsets, lines, token) ==
    IF token \notin DOMAIN offsets
    THEN [error |-> TRUE, postings |-> <<>>]
    ELSE LET read == ReadLineAt(lines, offsets[token])
         IN  IF read.ok /\ read.line.token = token
             THEN [error |-> FALSE, postings |-> read.line.postings]
             ELSE [error |-> TRUE, postings |-> <<>>]

\* error: json.loads fails on what was read, or the line read has another key
readPostingList(offsets, lines, token) ==
    IF token \notin DOMAIN offsets
    THEN [error |-> FALSE, postings |-> <<>>]
    ELSE LET read == ReadLineAt(lines, offsets[token])
         IN  IF read.ok /\ read.line.token = token
             THEN [error |-> FALSE, postings |-> read.line.postings]
             ELSE [error |-> TRUE, postings |-> <<>>]

\* _intersect taking the score of p1 alone
RECURSIVE _intersectFirstScore(_, _)
_intersectFirstScore(p1, p2) ==
    IF p1 = <<>> \/ p2 = <<>> THEN <<>>
    ELSE IF p1[1].docID = p2[1].docID
         THEN <<[docID |-> p1[1].docID, tf_idf |-> p1[1].tf_idf]>>
              \o _intersectFirstScore(Tail(p1), Tail(p2))
    ELSE IF p1[1].docID < p2[1].docID
         THEN _intersectFirstScore(Tail(p1), p2)
         ELSE _intersectFirstScore(p1, Tail(p2))

RECURSIVE _intersect(_, _)
_intersect(p1, p2) ==
    IF p1 = <<>> \/ p2 = <<>> THEN <<>>
    ELSE IF p1[1].docID = p2[1].docID
         THEN <<[docID |-> p1[1].docID, tf_idf |-> p1[1].tf_idf + p2[1].tf_idf]>>
              \o _intersect(Tail(p1), Tail(p2))
    ELSE IF p1[1].docID < p2[1].docID
         THEN _intersect(Tail(p1), p2)
         ELSE _intersect(p1, Tail(p2))

\* while both lists have postings an unmatched posting is stepped over
\* without being appended; what is left of either list is appended at the end
RECURSIVE _merge(_, _)
_merge(p1, p2) ==
    IF p1 = <<>> THEN p2
    ELSE IF p2 = <<>> THEN p1
    ELSE IF p1[1].docID = p2[1].docID
         THEN <<[docID |-> p1[1].docID, tf_idf |-> p1[1].tf_idf + p2[1].tf_idf]>>
              \o _merge(Tail(p1), Tail(p2))
    ELSE IF p1[1].docID < p2[1].docID
         THEN _merge(Tail(p1), p2)
         ELSE _merge(p1, Tail(p2))

\* list.sort(key=len): stable, ascending
RECURSIVE SortByLen(_)
SortByLen(lists) ==
    IF lists = <<>> THEN <<>>
    ELSE LET rest == SortByLen(SubSeq(lists, 1, Len(lists) - 1))
             x    == lists[Len(lists)]
             \* x goes behind every list that is not longer
             n    == Cardinality({ k \in 1..Len(rest) : Len(rest[k]) <= Len(x) })
         IN  SubSeq(rest, 1, n) \o <<x>> \o SubSeq(rest, n + 1, Len(rest))

\* res = lists[0]; res = step(res, lists[i]) for i = 1, 2, ...
RECURSIVE FoldIntersect(_, _)
FoldIntersect(res, lists) ==
    IF lists = <<>> THEN res ELSE FoldIntersect(_intersect(res, Head(lists)), Tail(lists))

RECURSIVE FoldMerge(_, _)
FoldMerge(res, lists) ==
    IF lists = <<>> THEN res ELSE FoldMerge(_merge(res, Head(lists)), Tail(lists))

getPostingsListsIntersection(queryPostingsLists) ==
    IF Len(queryPostingsLists) = 0 THEN <<>>
    ELSE LET lists == SortByLen(queryPostingsLists)
         IN  FoldIntersect(Head(lists), Tail(lists))

mergePostingLists(queryPostingsLists) ==
    IF Len(queryPostingsLists) = 0 THEN <<>>
    ELSE FoldMerge(Head(queryPostingsLists), Tail(queryPostingsLists))

\* documents.sort(key=tf_idf) without reverse=True: stable, ascending
RECURSIVE SortByScoreAscending(_)
SortByScoreAscending(documents) ==
    IF documents = <<>> THEN <<>>
    ELSE LET rest == SortByScoreAscending(SubSeq(documents, 1, Len(documents) - 1))
             x    == documents[Len(documents)]
             n    == Cardinality({ k \in 1..Len(rest) : rest[k].tf_idf <= x.tf_idf })
         IN  SubSeq(rest, 1, n) \o <<x>> \o SubSeq(rest, n + 1, Len(rest))

\* documents.sort(key=tf_idf, reverse=True): stable, descending
RECURSIVE SortByScore(_)
SortByScore(documents) ==
    IF documents = <<>> THEN <<>>
    ELSE LET rest == SortByScore(SubSeq(documents, 1, Len(documents) - 1))
             x    == documents[Len(documents)]
             \* x goes behind every document whose score is not lower
             n    == Cardinality({ k \in 1..Len(rest) : rest[k].tf_idf >= x.tf_idf })
         IN  SubSeq(rest, 1, n) \o <<x>> \o SubSeq(rest, n + 1, Len(rest))

\* what searchQuery computes. raised: an exception leaves searchQuery
searchQuery(query, maxResults) ==
    LET reads      == [k \in 1..Len(query) |->
                          readPostingList(indexOfIndex, dir[INDEX_FILE_NAME], query[k])]
        lists      == [k \in 1..Len(query) |-> reads[k].postings]
        both       == getPostingsListsIntersection(lists)
        \* getPostingsListsIntersection has sorted the list of lists in place
        candidates == IF Len(both) = 0 THEN mergePostingLists(SortByLen(lists)) ELSE both
        documents  == SortByScore(candidates)
        n          == IF maxResults < Len(documents) THEN maxResults ELSE Len(documents)
        raised     == \/ \E k \in 1..Len(query) : reads[k].error
                      \/ \E k \in 1..n : documents[k].docID >= Len(searcherDocIDtoURL)
    IN  IF raised
        THEN [called |-> TRUE, query |-> query, maxResults |-> maxResults, raised |-> TRUE,
              lists |-> lists, usedMerge |-> FALSE, candidates |-> <<>>,
              documents |-> <<>>, urls |-> <<>>]
        ELSE [called |-> TRUE, query |-> query, maxResults |-> maxResults, raised |-> FALSE,
              lists |-> lists, usedMerge |-> Len(both) = 0, candidates |-> candidates,
              documents |-> documents,
              urls |-> [k \in 1..n |-> searcherDocIDtoURL[documents[k].docID + 1]]]

\* readline() at position: the handle moves past the line that starts there
AfterReadLine(lines, position) ==
    IF ReadLineAt(lines, position).ok
    THEN position + LineBytes(ReadLineAt(lines, position).line)
    ELSE position

\* the position of the handle after the readPostingList calls of a query
RECURSIVE HandleAfter(_, _, _, _)
HandleAfter(offsets, lines, query, position) ==
    IF query = <<>> THEN position
    ELSE HandleAfter(offsets, lines, Tail(query),
                     IF Head(query) \in DOMAIN offsets
                     THEN AfterReadLine(lines, offsets[Head(query)])
                     ELSE position)

\* runConsoleSearchEngine: one query is answered at a time
SearchQuery ==
    /\ pc = "searchQuery"
    /\ ~search.called
    /\ \E query \in Queries, maxResults \in 0..MaxResultsBound :
         /\ search' = searchQuery(query, maxResults)
         /\ invertedIndexFile' = HandleAfter(indexOfIndex, dir[INDEX_FILE_NAME], query, invertedIndexFile)
    /\ UNCHANGED <<pc, docsSeen, index, docIDtoURL, numberOfDocsIndexed, currPartialIndex,
                   currDocID, dir, partialIndexPaths, indexOfIndexFile, docIDtoURLFile,
                   ingested, reference, indexOfIndex, searcherDocIDtoURL,
                   listed, handlers>>

\* the URLs have been printed or rendered; the next query is awaited
SearchReturn ==
    /\ pc = "searchQuery"
    /\ search.called
    /\ search' = NoSearch
    /\ UNCHANGED <<pc, docsSeen, index, docIDtoURL, numberOfDocsIndexed, currPartialIndex,
                   currDocID, dir, partialIndexPaths, indexOfIndexFile, docIDtoURLFile,
                   ingested, reference, indexOfIndex, searcherDocIDtoURL,
                   listed, invertedIndexFile, handlers>>

Next == IngestDocument \/ FinishPartialIndexes \/ RenameToIndex \/ StartMergePass
        \/ MergePair \/ EndMergePass \/ CalculateTF_IDF \/ CreateIndexofIndex
        \/ WriteDocIdToURLToDisk \/ SearcherRun \/ SearchQuery \/ SearchReturn

Spec == Init /\ [][Next]_vars

\* Indexer.run in an empty directory. The build is one thread that runs
\* until it returns: whenever it has a next step it takes it.
NextIndexer ==
    \/ IngestDocument \/ FinishPartialIndexes \/ RenameToIndex \/ StartMergePass
    \/ MergePair \/ EndMergePass \/ CalculateTF_IDF \/ CreateIndexofIndex
    \/ WriteDocIdToURLToDisk

SpecIndexer == Init /\ [][NextIndexer]_vars /\ WF_vars(NextIndexer)

\* ------------------------ a build in a directory an earlier build was
\* interrupted in. The interrupted build left one of its partial index files
\* behind, partialIndex_n.jsonl for n up to MaxLeftoverName, holding the
\* spill of a document of one word.
MaxLeftoverName == 4

LeftoverFiles ==
    { PartialIndexLines(AddPostings(EmptyMap, parseDocument(h, 0))) :
        h \in { g \in HTMLs : /\ g.tags = EmptyMap
                              /\ Cardinality(DOMAIN g.freq) = 1
                              /\ \A t \in DOMAIN g.freq : g.freq[t] = 1 } }

InitLeftover ==
    /\ pc = "createPartialIndexes"
    /\ docsSeen = 0
    /\ index = EmptyMap
    /\ docIDtoURL = <<>>
    /\ numberOfDocsIndexed = 0
    /\ currPartialIndex = 1
    /\ currDocID = 0
    /\ dir \in { WriteFile(EmptyMap, n, f) : n \in 1..MaxLeftoverName, f \in LeftoverFiles }
    /\ partialIndexPaths = <<>>
    /\ indexOfIndexFile = EmptyMap
    /\ docIDtoURLFile = <<>>
    /\ ingested = <<>>
    /\ reference = <<>>
    /\ indexOfIndex = EmptyMap
    /\ searcherDocIDtoURL = <<>>
    /\ search = NoSearch
    /\ listed = 0
    /\ invertedIndexFile = 0
    /\ handlers = NoHandlers

\* Indexer.run alone
NextBuild ==
    \/ IngestDocument \/ FinishPartialIndexes \/ RenameToIndex \/ StartMergePass
    \/ MergePair \/ EndMergePass \/ CalculateTF_IDF \/ CalculateTF_IDFRaises
    \/ CreateIndexofIndex \/ WriteDocIdToURLToDisk

SpecLeftover == InitLeftover /\ [][NextBuild]_vars

\* ------------------------------------------- the Searcher as web app
\* Searcher.run with runAsWebApp over the index of a build of two documents
\* that spilled once: the handle is open, the offset map and the URLs are
\* loaded, and the handlers of app.run serve requests. A request calls
\* readPostingList for each token of its query; the seek and the readline of
\* a call are two calls on the handle that all handlers share, and no lock is
\* taken around them.
BuiltIndex(h1, h2) ==
    calculateTF_IDF(PartialIndexLines(AddPostings(AddPostings(EmptyMap, parseDocument(h1, 0)),
                                                  parseDocument(h2, 1))), 2)

InitWeb ==
    /\ pc = "runWebAppSearchEngine"
    /\ \E h1 \in HTMLs, h2 \in HTMLs :
         /\ dir = WriteFile(EmptyMap, INDEX_FILE_NAME, BuiltIndex(h1, h2))
         /\ indexOfIndexFile = createIndexofIndex(BuiltIndex(h1, h2))
         /\ indexOfIndex = createIndexofIndex(BuiltIndex(h1, h2))
    /\ docIDtoURLFile = <<1, 2>>
    /\ searcherDocIDtoURL = <<1, 2>>
    /\ docsSeen = 0
    /\ index = EmptyMap
    /\ docIDtoURL = <<>>
    /\ numberOfDocsIndexed = 0
    /\ currPartialIndex = 1
    /\ currDocID = 0
    /\ partialIndexPaths = <<>>
    /\ ingested = <<>>
    /\ reference = <<>>
    /\ search = NoSearch
    /\ listed = 0
    /\ invertedIndexFile = 0
    /\ handlers = NoHandlers

\* handler h enters readPostingList(token): the offset is looked up, a token
\* without one gets the empty list at once
ReadPostingListCall(h) ==
    /\ pc = "runWebAppSearchEngine"
    /\ handlers[h].pc = "idle"
    /\ \E token \in QueryTokens :
         handlers' = [handlers EXCEPT ![h] =
            IF token \in DOMAIN indexOfIndex
            THEN [pc |-> "seek", token |-> token, seekPostion |-> indexOfIndex[token]]
            ELSE [pc |-> "returned", token |-> token, raised |-> FALSE, postings |-> <<>>]]
    /\ UNCHANGED <<pc, docsSeen, index, docIDtoURL, numberOfDocsIndexed, currPartialIndex,
                   currDocID, dir, partialIndexPaths, indexOfIndexFile, docIDtoURLFile,
                   ingested, reference, indexOfIndex, searcherDocIDtoURL, search,
                   listed, invertedIndexFile>>

\* self.invertedIndexFile.seek(seekPostion)
Seek(h) ==
    /\ pc = "runWebAppSearchEngine"
    /\ handlers[h].pc = "seek"
    /\ invertedIndexFile' = handlers[h].seekPostion
    /\ handlers' = [handlers EXCEPT ![h].pc = "readline"]
    /\ UNCHANGED <<pc, docsSeen, index, docIDtoURL, numberOfDocsIndexed, currPartialIndex,
                   currDocID, dir, partialIndexPaths, indexOfIndexFile, docIDtoURLFile,
                   ingested, reference, indexOfIndex, searcherDocIDtoURL, search, listed>>

\* json.loads(self.invertedIndexFile.readline().strip())[token]: the line at
\* the position the handle has now. At the end of the file readline gives ""
\* and json.loads raises; a line of another token raises KeyError.
ReadLine(h) ==
    /\ pc = "runWebAppSearchEngine"
    /\ handlers[h].pc = "readline"
    /\ LET read == ReadLineAt(dir[INDEX_FILE_NAME], invertedIndexFile)
           found == read.ok /\ read.line.token = handlers[h].token
       IN  handlers' = [handlers EXCEPT ![h] =
              [pc |-> "returned", token |-> handlers[h].token, raised |-> ~found,
               postings |-> IF found THEN read.line.postings ELSE <<>>]]
    /\ invertedIndexFile' = AfterReadLine(dir[INDEX_FILE_NAME], invertedIndexFile)
    /\ UNCHANGED <<pc, docsSeen, index, docIDtoURL, numberOfDocsIndexed, currPartialIndex,
                   currDocID, dir, partialIndexPaths, indexOfIndexFile, docIDtoURLFile,
                   ingested, reference, indexOfIndex, searcherDocIDtoURL, search, listed>>

\* the call has returned or raised; the handler goes on to its next call
Return(h) ==
    /\ pc = "runWebAppSearchEngine"
    /\ handlers[h].pc = "returned"
    /\ handlers' = [handlers EXCEPT ![h] = [pc |-> "idle"]]
    /\ UNCHANGED <<pc, docsSeen, index, docIDtoURL, numberOfDocsIndexed, currPartialIndex,
                   currDocID, dir, partialIndexPaths, indexOfIndexFile, docIDtoURLFile,
                   ingested, reference, indexOfIndex, searcherDocIDtoURL, search,
                   listed, invertedIndexFile>>

NextWeb ==
    \E h \in Handlers : ReadPostingListCall(h) \/ Seek(h) \/ ReadLine(h) \/ Return(h)

SpecWeb == InitWeb /\ [][NextWeb]_vars

\* ------------------------------------- the posting-list functions alone
\* tf_idf values of the postings handed to the functions
Scores == {1, 2}

\* the posting lists over the docIDs below MaxDocs, strictly ascending by docID
AscendingLists ==
    UNION { { [k \in 1..Cardinality(D) |-> [docID |-> sorted(D)[k], tf_idf |-> f[sorted(D)[k]]]] :
                f \in [D -> Scores] } : D \in SUBSET (0..(MaxDocs - 1)) }

\* one posting list for each of up to NumTerms + 1 query tokens
ListInputs == UNION { [1..n -> AscendingLists] : n \in 0..(NumTerms + 1) }

InitLists ==
    /\ pc = "postingLists"
    /\ search \in { [called |-> FALSE, lists |-> L] : L \in ListInputs }
    /\ docsSeen = 0
    /\ index = EmptyMap
    /\ docIDtoURL = <<>>
    /\ numberOfDocsIndexed = 0
    /\ currPartialIndex = 1
    /\ currDocID = 0
    /\ dir = EmptyMap
    /\ partialIndexPaths = <<>>
    /\ indexOfIndexFile = EmptyMap
    /\ docIDtoURLFile = <<>>
    /\ ingested = <<>>
    /\ reference = <<>>
    /\ indexOfIndex = EmptyMap
    /\ searcherDocIDtoURL = <<>>
    /\ listed = 0
    /\ invertedIndexFile = 0
    /\ handlers = NoHandlers

CallIntersection ==
    /\ pc = "postingLists"
    /\ ~search.called
    /\ search' = [called |-> TRUE, op |-> "getPostingsListsIntersection", lists |-> search.lists,
                  result |-> getPostingsListsIntersection(search.lists)]
    /\ UNCHANGED <<pc, docsSeen, index, docIDtoURL, numberOfDocsIndexed, currPartialIndex,
                   currDocID, dir, partialIndexPaths, indexOfIndexFile, docIDtoURLFile,
                   ingested, reference, indexOfIndex, searcherDocIDtoURL,
                   listed, invertedIndexFile, handlers>>

CallMerge ==
    /\ pc = "postingLists"
    /\ ~search.called
    /\ search' = [called |-> TRUE, op |-> "mergePostingLists", lists |-> search.lists,
                  result |-> mergePostingLists(search.lists)]
    /\ UNCHANGED <<pc, docsSeen, index, docIDtoURL, numberOfDocsIndexed, currPartialIndex,
                   currDocID, dir, partialIndexPaths, indexOfIndexFile, docIDtoURLFile,
                   ingested, reference, indexOfIndex, searcherDocIDtoURL,
                   listed, invertedIndexFile, handlers>>

NextLists == CallIntersection \/ CallMerge

SpecLists == InitLists /\ [][NextLists]_vars

\* ------------------------------------------------------------ properties
StrictlyAscending(s) == \A i, j \in 1..Len(s) : i < j => s[i] < s[j]

DocIDs(postings) == [k \in 1..Len(postings) |-> postings[k].docID]

Tokens(lines) == [k \in 1..Len(lines) |-> lines[k].token]

PostingCount(lines) == SumSeq([k \in 1..Len(lines) |-> Len(lines[k].postings)])

\* the three spills of a corpus have been merged in two passes into the final index
MergedThreeSpills == pc = "calculateTF_IDF" /\ currPartialIndex = 6

\* C1: in every partial-index file, every intermediate merged file and the
\* final index, the docIDs of each posting list are strictly increasing,
\* whatever order the directory listing yields the files in.
C1_DocIDsAscending ==
    \A n \in DOMAIN dir : \A k \in 1..Len(dir[n]) :
        StrictlyAscending(DocIDs(dir[n][k].postings))

\* C3: merging the spilled files down to one file gives the same content
\* whatever pairwise order is used: the final index equals the files merged
\* in creation order, each merge taking the older file first.
C3_MergeOrderIndependent ==
    pc = "calculateTF_IDF" => dir[INDEX_FILE_NAME] = reference

\* C5: in every partial-index file, every intermediate merged file and the
\* final index, the tokens of successive lines are strictly ascending.
C5_TermsAscending ==
    \A n \in DOMAIN dir : StrictlyAscending(Tokens(dir[n]))

C5_Witness ==
    /\ MergedThreeSpills
    /\ Len(dir[INDEX_FILE_NAME]) = NumTerms
    /\ \A k \in 1..NumTerms : Len(dir[INDEX_FILE_NAME][k].postings) >= 2

DistinctTermCount(docs) ==
    SumSeq([i \in 1..Len(docs) |-> Cardinality(DOMAIN docs[i].html.freq)])

\* the postings held by the files of the index folder
FilePostingCount ==
    LET names == sorted(DOMAIN dir)
    IN  SumSeq([i \in 1..Len(names) |-> PostingCount(dir[names[i]])])

\* C6: no posting is lost or duplicated by a spill, by clearing the
\* accumulator, by a carried-over file or by a 2-way merge: up to the TF-IDF
\* rewrite the files hold, together with the accumulator while documents
\* are read and alone once it has been spilled for the last time, as many
\* postings as the indexed documents have distinct terms, and so does the
\* merged index.
C6_NoLostPostings ==
    /\ pc = "createPartialIndexes"
         => FilePostingCount + PostingCount(PartialIndexLines(index)) = DistinctTermCount(ingested)
    /\ pc \in {"mergePartialIndexesToDisk", "mergePairs", "calculateTF_IDF"}
         => FilePostingCount = DistinctTermCount(ingested)
    /\ pc = "calculateTF_IDF"
         => PostingCount(dir[INDEX_FILE_NAME]) = DistinctTermCount(ingested)

\* a corpus of three well-formed documents, spilled three times and merged
C6_Witness ==
    /\ MergedThreeSpills
    /\ docsSeen = MaxDocs /\ Len(ingested) = MaxDocs
    /\ PostingCount(dir[INDEX_FILE_NAME]) >= 4

IndexerSteps == {"createPartialIndexes", "mergePartialIndexesToDisk", "mergePairs",
                 "calculateTF_IDF", "createIndexofIndex", "writeDocIdToURLToDisk",
                 "Searcher.run"}

\* the (token, docID) pairs of the postings of the accumulator and the files
StoredPostings ==
    UNION { { <<t, index[t][k].docID>> : k \in 1..Len(index[t]) } : t \in DOMAIN index }
    \cup UNION { UNION { { <<dir[n][l].token, dir[n][l].postings[k].docID>> :
                             k \in 1..Len(dir[n][l].postings) } :
                         l \in 1..Len(dir[n]) } : n \in DOMAIN dir }

\* C7: docIDs are dense. The i-th ingested document has docID i (0-based) and
\* its URL at position i of the table; a skipped document consumes no docID;
\* the table is as long as numberOfDocsIndexed and every posting's docID is
\* below it and is the docID of a document that holds the posting's token.
C7_DenseDocIDs ==
    pc \in IndexerSteps =>
    /\ Len(docIDtoURL) = numberOfDocsIndexed
    /\ Len(ingested) = numberOfDocsIndexed
    /\ currDocID = numberOfDocsIndexed
    /\ \A i \in 1..Len(ingested) : docIDtoURL[i] = ingested[i].url
    /\ \A p \in StoredPostings :
         /\ p[2] \in 0..(numberOfDocsIndexed - 1)
         /\ p[1] \in DOMAIN ingested[p[2] + 1].html.freq
    /\ \A i \in 1..Len(ingested) : \A t \in DOMAIN ingested[i].html.freq :
         <<t, i - 1>> \in StoredPostings

\* a skipped document came first, two documents were indexed after it
C7_Witness ==
    /\ pc = "calculateTF_IDF"
    /\ docsSeen = 3 /\ docIDtoURL = <<2, 3>>
    /\ \E k \in 1..Len(dir[INDEX_FILE_NAME]) : DocIDs(dir[INDEX_FILE_NAME][k].postings) = <<0, 1>>

DocIDSet(postings) == { postings[k].docID : k \in 1..Len(postings) }

\* the sum of the tf_idf of docID d over the lists that hold it
RECURSIVE ScoreSum(_, _)
ScoreSum(lists, d) ==
    IF lists = <<>> THEN 0
    ELSE SumSeq([k \in 1..Len(Head(lists)) |->
                    IF Head(lists)[k].docID = d THEN Head(lists)[k].tf_idf ELSE 0])
         + ScoreSum(Tail(lists), d)

\* C2: mergePostingLists of strictly ascending lists returns exactly one
\* posting for every docID of at least one list, its tf_idf the sum of the
\* docID's tf_idf over the lists that hold it.
C2_MergeIsUnion ==
    (pc = "postingLists" /\ search.called /\ search.op = "mergePostingLists") =>
        /\ DocIDSet(search.result) = UNION { DocIDSet(search.lists[k]) : k \in 1..Len(search.lists) }
        /\ StrictlyAscending(DocIDs(search.result))
        /\ \A k \in 1..Len(search.result) :
              search.result[k].tf_idf = ScoreSum(search.lists, search.result[k].docID)

\* C4: getPostingsListsIntersection of one or more strictly ascending lists
\* returns, ascending by docID, exactly the docIDs of every list, each with
\* the sum of its tf_idf over the lists, whatever order the lists are passed in.
C4_IntersectionOfAll ==
    (pc = "postingLists" /\ search.called /\ search.op = "getPostingsListsIntersection"
       /\ Len(search.lists) >= 1) =>
        /\ StrictlyAscending(DocIDs(search.result))
        /\ DocIDSet(search.result) =
             { d \in 0..(MaxDocs - 1) : \A k \in 1..Len(search.lists) : d \in DocIDSet(search.lists[k]) }
        /\ \A k \in 1..Len(search.result) :
              search.result[k].tf_idf = ScoreSum(search.lists, search.result[k].docID)
        /\ \A order \in Orders(1..Len(search.lists)) :
              getPostingsListsIntersection([k \in 1..Len(search.lists) |-> search.lists[order[k]]])
                = search.result

\* three lists, the longest passed first, the shortest last, one common docID
C4_Witness ==
    /\ pc = "postingLists" /\ search.called /\ search.op = "getPostingsListsIntersection"
    /\ Len(search.lists) = 3
    /\ Len(search.lists[1]) > Len(search.lists[2]) /\ Len(search.lists[2]) > Len(search.lists[3])
    /\ Len(search.result) = 1
    /\ search.result[1].tf_idf >= 4

\* the final index is in place and holds every token of the corpus vocabulary
IndexBuilt == pc \in {"writeDocIdToURLToDisk", "Searcher.run", "searchQuery"}

\* C8: after a build the offset map has an entry for exactly the tokens of
\* the rewritten index, and seeking the index to a token's offset and reading
\* one line yields the line of that token, which is what readPostingList returns.
C8_OffsetMapConsistent ==
    /\ IndexBuilt =>
         LET lines == dir[INDEX_FILE_NAME]
         IN  /\ DOMAIN indexOfIndexFile = { lines[k].token : k \in 1..Len(lines) }
             /\ \A t \in DOMAIN indexOfIndexFile :
                  /\ ReadLineAt(lines, indexOfIndexFile[t]).ok
                  /\ ReadLineAt(lines, indexOfIndexFile[t]).line.token = t
    /\ pc = "searchQuery" =>
         /\ indexOfIndex = indexOfIndexFile
         /\ \A k \in 1..Len(dir[INDEX_FILE_NAME]) :
              readPostingList(indexOfIndex, dir[INDEX_FILE_NAME], dir[INDEX_FILE_NAME][k].token)
                = [error |-> FALSE, postings |-> dir[INDEX_FILE_NAME][k].postings]

\* a query has read the posting list of the last of the lines of the index
C8_Witness ==
    /\ pc = "searchQuery" /\ search.called /\ ~search.raised
    /\ Len(dir[INDEX_FILE_NAME]) = NumTerms
    /\ indexOfIndex[NumTerms] > 0
    /\ \E k \in 1..Len(search.query) :
         search.query[k] = NumTerms /\ Len(search.lists[k]) >= 2

Occurrences(s, x) == Cardinality({ k \in 1..Len(s) : s[k] = x })

\* documents holds the candidates, highest tf_idf first
Ranked(documents, candidates) ==
    /\ Len(documents) = Len(candidates)
    /\ \A k \in 1..Len(candidates) :
         Occurrences(documents, candidates[k]) = Occurrences(candidates, candidates[k])
    /\ \A k \in 1..(Len(documents) - 1) : documents[k].tf_idf >= documents[k + 1].tf_idf

\* C9: searchQuery(query, K) returns min(K, number of candidates) URLs, those
\* of the candidates in non-increasing order of tf_idf; no candidate left out
\* has a larger tf_idf than one returned; each URL is the table's entry at
\* the candidate's docID.
C9_TopK ==
    (pc = "searchQuery" /\ search.called) =>
        /\ ~search.raised
        /\ Ranked(search.documents, search.candidates)
        /\ Len(search.urls) = IF search.maxResults < Len(search.candidates)
                              THEN search.maxResults ELSE Len(search.candidates)
        /\ \A k \in 1..Len(search.urls) :
             /\ search.urls[k] = searcherDocIDtoURL[search.documents[k].docID + 1]
             /\ \A j \in (Len(search.urls) + 1)..Len(search.documents) :
                  search.documents[j].tf_idf <= search.documents[k].tf_idf

\* more candidates than K, the best of them not the first in docID order
C9_Witness ==
    /\ pc = "searchQuery" /\ search.called /\ ~search.raised
    /\ search.maxResults = 1
    /\ Len(search.candidates) >= 2
    /\ search.candidates[1].tf_idf < search.candidates[2].tf_idf
    /\ search.urls = <<searcherDocIDtoURL[search.candidates[2].docID + 1]>>

\* the posting list of token t in the index
TokenSet(lines) == { lines[k].token : k \in 1..Len(lines) }

PostingsOf(lines, t) == lines[CHOOSE k \in 1..Len(lines) : lines[k].token = t].postings

\* C10: unknown terms contribute nothing and never fail. readPostingList of a
\* token absent from the offset map returns an empty list; a query of unknown
\* tokens only, or of no token, returns no URL without error; a query of one
\* indexed token and unknown tokens falls back to mergePostingLists and
\* returns the documents of the indexed token's posting list ranked by tf_idf.
C10_UnknownTerms ==
    pc = "searchQuery" =>
        /\ \A t \in QueryTokens \ DOMAIN indexOfIndex :
             readPostingList(indexOfIndex, dir[INDEX_FILE_NAME], t) = [error |-> FALSE, postings |-> <<>>]
        /\ search.called =>
             LET known == { k \in 1..Len(search.query) : search.query[k] \in DOMAIN indexOfIndex }
             IN  /\ known = {} => ~search.raised /\ search.urls = <<>> /\ search.candidates = <<>>
                 /\ Cardinality(known) = 1 =>
                      LET t == search.query[CHOOSE k \in known : TRUE]
                      IN  /\ ~search.raised
                          /\ Len(search.query) > 1 => search.usedMerge
                          /\ search.candidates = PostingsOf(dir[INDEX_FILE_NAME], t)
                          /\ Ranked(search.documents, PostingsOf(dir[INDEX_FILE_NAME], t))
                          /\ Len(search.urls) = IF search.maxResults < Len(search.documents)
                                                THEN search.maxResults ELSE Len(search.documents)
                          /\ \A k \in 1..Len(search.urls) :
                               search.urls[k] = searcherDocIDtoURL[search.documents[k].docID + 1]

\* an indexed token between two unknown ones: its two documents are returned
C10_Witness ==
    /\ pc = "searchQuery" /\ search.called /\ ~search.raised
    /\ Len(search.query) = 3
    /\ search.query[2] \in DOMAIN indexOfIndex
    /\ search.query[1] \notin DOMAIN indexOfIndex /\ search.query[3] \notin DOMAIN indexOfIndex
    /\ search.usedMerge
    /\ Len(search.urls) = 2

\* the merged index old rewritten as new for N indexed documents
RewrittenPayloadsOnly(old, new, N) ==
    /\ Tokens(new) = Tokens(old)
    /\ \A k \in 1..Len(old) :
         LET df == Len(old[k].postings)
         IN  /\ DocIDs(new[k].postings) = DocIDs(old[k].postings)
             /\ df <= N
             /\ \A j \in 1..Len(new[k].postings) :
                  /\ DOMAIN new[k].postings[j] = {"docID", "tf_idf"}
                  /\ df = N => new[k].postings[j].tf_idf = 0

\* C11: the TF-IDF rewrite changes only the payload of the postings. The
\* rewritten index has the tokens of the merged index in the same order and
\* for each token the same sequence of docIDs; every posting has the fields
\* docID and tf_idf and no other; the posting list of a token is never longer
\* than the number of indexed documents, and when it is as long every posting
\* of the token is kept with tf_idf 0.
C11_RewriteKeepsStructure ==
    [][(pc = "calculateTF_IDF" /\ pc' = "createIndexofIndex") =>
          RewrittenPayloadsOnly(dir[INDEX_FILE_NAME], dir'[INDEX_FILE_NAME], numberOfDocsIndexed)]_vars

\* a rewritten index of three documents: one token in all of them, with
\* tf_idf 0 three times, and one token with a positive tf_idf
C11_Witness ==
    /\ pc = "createIndexofIndex"
    /\ numberOfDocsIndexed = 3
    /\ Len(dir[INDEX_FILE_NAME]) = 2
    /\ \E k \in 1..2 :
         /\ Len(dir[INDEX_FILE_NAME][k].postings) = 3
         /\ \A j \in 1..3 : dir[INDEX_FILE_NAME][k].postings[j].tf_idf = 0
    /\ \E k \in 1..2 : \E j \in 1..Len(dir[INDEX_FILE_NAME][k].postings) :
         dir[INDEX_FILE_NAME][k].postings[j].tf_idf > 1800

\* the same tokens in the same order and for each token the same postings,
\* in any order
SamePostings(a, b) ==
    /\ Tokens(a) = Tokens(b)
    /\ \A k \in 1..Len(a) :
         /\ Len(a[k].postings) = Len(b[k].postings)
         /\ { a[k].postings[j] : j \in 1..Len(a[k].postings) }
              = { b[k].postings[j] : j \in 1..Len(b[k].postings) }

\* C12: a build started in a directory that holds a partial index file of an
\* interrupted build starts from scratch: the merged index it produces has
\* the postings a build of the same corpus in an empty directory produces,
\* and no posting of the leftover file.
C12_StartsFromScratch ==
    pc = "calculateTF_IDF" => SamePostings(dir[INDEX_FILE_NAME], reference)

\* the steps of a merge pass: a merged pair is unlinked and the files not yet
\* read are left as they were; the pass over n files ends with ceil(n/2)
\* files, a file without a partner among them as it was
MergePassStep ==
    /\ (pc = "mergePairs" /\ pc' = "mergePairs") =>
         /\ partialIndexPaths[1] \notin DOMAIN dir'
         /\ partialIndexPaths[2] \notin DOMAIN dir'
         /\ \A k \in 1..Len(partialIndexPaths') :
              /\ partialIndexPaths'[k] \in DOMAIN dir'
              /\ dir'[partialIndexPaths'[k]] = dir[partialIndexPaths'[k]]
    /\ (pc = "mergePairs" /\ pc' = "mergePartialIndexesToDisk") =>
         /\ Cardinality(PartialIndexFiles(dir')) = (listed + 1) \div 2
         /\ Len(partialIndexPaths) = 1 =>
              /\ partialIndexPaths[1] \in DOMAIN dir'
              /\ dir'[partialIndexPaths[1]] = dir[partialIndexPaths[1]]

Merged == pc \in {"calculateTF_IDF", "createIndexofIndex", "writeDocIdToURLToDisk", "Searcher.run"}

\* C13: mergePartialIndexesToDisk terminates. It starts with at least one
\* partial index file; each pass over n files leaves ceil(n/2) of them, a file
\* without a partner carried over as it was and both files of a merged pair
\* unlinked; the merge ends, and from then on index.jsonl is the one file of
\* the index directory and no partial index file is left.
C13_MergeTerminates ==
    /\ [](pc = "mergePartialIndexesToDisk" => Cardinality(PartialIndexFiles(dir)) >= 1)
    /\ [][MergePassStep]_vars
    /\ [](Merged => DOMAIN dir = {INDEX_FILE_NAME})
    /\ (pc = "mergePartialIndexesToDisk") ~> (pc = "calculateTF_IDF")

\* three partial index files were merged in two passes, the first of which
\* carried one file over, and index.jsonl alone is left
C13_Witness ==
    /\ pc = "calculateTF_IDF"
    /\ currPartialIndex = 6
    /\ listed = 2
    /\ DOMAIN dir = {INDEX_FILE_NAME}
    /\ Len(dir[INDEX_FILE_NAME]) = 2

\* C14: access to the one index file handle is serialized when the web app
\* serves requests. Between the seek of a readPostingList call and its line
\* read no other call moves the handle, so that the read finds the handle
\* where the call put it, and every readPostingList(t) returns the posting
\* list of t: the list of t's line, or the empty list for a token without a
\* line, and never an exception.
C14_HandleSerialized ==
    pc = "runWebAppSearchEngine" =>
        \A h \in Handlers :
            /\ handlers[h].pc = "readline" => invertedIndexFile = handlers[h].seekPostion
            /\ handlers[h].pc = "returned" =>
                 /\ ~handlers[h].raised
                 /\ handlers[h].postings =
                      IF handlers[h].token \in TokenSet(dir[INDEX_FILE_NAME])
                      THEN PostingsOf(dir[INDEX_FILE_NAME], handlers[h].token)
                      ELSE <<>>
====
